---- MODULE Spec2Model ----
(***************************************************************************)
(* A model of fabio's cbfimage.py: the CIF tokenizer (CIF._splitCIF), the  *)
(* document assembler (CIF._parseCIF, CIF._analyseOneLoop), the serializer *)
(* (CIF.tostring), the ordered dictionary (CIF.__setitem__, pop, popitem), *)
(* the CBF container (cbfimage.read, cbfimage.write) and the byte-offset   *)
(* codec the container calls.                                              *)
(*                                                                         *)
(* Text is a sequence of one-character strings.  A byte that is no         *)
(* printable character is written as one element too: "<1A>" is the byte   *)
(* 0x1A.  Python's 0-based indices and slices are kept (At, Slice, Find).  *)
(***************************************************************************)
EXTENDS Integers, Sequences, FiniteSets, TLC

VARIABLES
    sText,      \* _splitCIF: the text still to split
    lFields,    \* _splitCIF: the fields found so far
    idx,        \* _splitCIF: the scan index of the inner while loop
    pcSplit,    \* _splitCIF: where the tokenizer stands
    iStart,     \* _analyseOneLoop: the index of the loop_ field in lFields
    loopResult, \* _analyseOneLoop: what the call returned
    ordered,    \* CIF: self._ordered
    dict,       \* CIF: the dict the object is (key -> value)
    calls,      \* CIF: the calls made on the object so far, in order
    raised,     \* CIF: whether the last call ended in an exception
    rendered,   \* CIF.tostring: what the call returned
    parsed,     \* CIF._parseCIF: the object a parse of the text has filled
    image,      \* cbfimage: the attributes of the image object
    outcome,    \* cbfimage: what the last call on the image came to
    disk,       \* the files: name -> [text, origin]
    nCalls      \* cbfimage: the calls of read, write made so far

splitVars == <<sText, lFields, idx, pcSplit>>

loopVars == <<iStart, loopResult>>

cifVars == <<ordered, dict, calls, raised>>

docVars == <<rendered, parsed>>

cbfVars == <<image, outcome, disk, nCalls>>

vars == <<sText, lFields, idx, pcSplit, iStart, loopResult,
          ordered, dict, calls, raised, rendered, parsed,
          image, outcome, disk, nCalls>>

(***************************************************************************)
(* Python's str operations                                                 *)
(***************************************************************************)
SetMin(S) == CHOOSE x \in S : \A y \in S : x <= y

SetMax(S) == CHOOSE x \in S : \A y \in S : x >= y

Range(s) == {s[i] : i \in 1..Len(s)}

\* What str.strip() and str.split(None) take for white space.
WS == {" ", "\t", "\n", "\r", "\f", "<0B>"}

\* A slice bound as Python clamps it: a negative bound counts from the end.
PyBound(s, i) ==
    IF i < 0 THEN (IF Len(s) + i < 0 THEN 0 ELSE Len(s) + i)
    ELSE (IF i > Len(s) THEN Len(s) ELSE i)

\* s[a:b]
Slice(s, a, b) == SubSeq(s, PyBound(s, a) + 1, PyBound(s, b))

\* s[a:]
SliceFrom(s, a) == Slice(s, a, Len(s))

\* s[i] for an index the code has kept in range; s[-1] is the last element.
At(s, i) == IF i < 0 THEN s[Len(s) + i + 1] ELSE s[i + 1]

\* s.find(sub), for a sub that is not empty: the first 0-based position
\* where sub stands in s, or -1.
Find(s, sub) ==
    LET at == {i \in 0..(Len(s) - Len(sub)) :
                  s[i + 1] = sub[1] /\ SubSeq(s, i + 1, i + Len(sub)) = sub}
    IN  IF at = {} THEN -1 ELSE SetMin(at)

\* The first position from i up whose character is not in chars, Len(s) + 1
\* when there is none.
SkipUp(s, i, chars) ==
    CHOOSE j \in i..(Len(s) + 1) :
        /\ j = Len(s) + 1 \/ s[j] \notin chars
        /\ \A m \in i..(j - 1) : s[m] \in chars

\* The last position from i down whose character is not in chars, 0 when
\* there is none.
SkipDown(s, i, chars) ==
    CHOOSE j \in 0..i :
        /\ j = 0 \/ s[j] \notin chars
        /\ \A m \in (j + 1)..i : s[m] \in chars

\* s.strip(chars)
StripChars(s, chars) ==
    LET b == SkipUp(s, 1, chars)
    IN  IF b > Len(s) THEN <<>> ELSE SubSeq(s, b, SkipDown(s, Len(s), chars))

\* s.strip()
Strip(s) == StripChars(s, WS)

\* s.startswith(p)
StartsWith(s, p) == Len(s) >= Len(p) /\ SubSeq(s, 1, Len(p)) = p

\* The first position from i up whose character is in chars, Len(s) + 1
\* when there is none.
ScanTo(s, i, chars) ==
    CHOOSE j \in i..(Len(s) + 1) :
        /\ j = Len(s) + 1 \/ s[j] \in chars
        /\ \A m \in i..(j - 1) : s[m] \notin chars

\* s.split(None, 1)[0]: the first run of characters that are no white
\* space (<<>> when s is all white space, where the code raises IndexError).
FirstWord(s) ==
    LET b == SkipUp(s, 1, WS)
    IN  IF b > Len(s) THEN <<>> ELSE SubSeq(s, b, ScanTo(s, b, WS) - 1)

(***************************************************************************)
(* CIF class constants (cbfimage.py lines 250-253)                         *)
(***************************************************************************)
\* CIF.EOL is ["\r", "\n", "\r\n", "\n\r"]; the code only ever tests one
\* character against it, which the two-character entries never equal.
EOL == {"\r", "\n"}

BLANK == {" ", "\t"} \cup EOL

BINARY_MARKER ==
    <<"-","-","C","I","F","-","B","I","N","A","R","Y","-","F","O","R","M","A","T",
      "-","S","E","C","T","I","O","N","-","-">>

(***************************************************************************)
(* CIF._splitCIF (lines 398-474), one step per pass of a while loop.       *)
(* A tokenizer state is [sText, lFields, idx, pc]; pc is "top" at the head *)
(* of the outer loop, "squote", "dquote" or "semi" inside an inner loop,   *)
(* "done" after the break of line 411 and "error" after an IndexError.     *)
(***************************************************************************)
SplitState(t, f, i, p) == [sText |-> t, lFields |-> f, idx |-> i, pc |-> p]

\* Lines 452-459: where the scan for the closing ";" starts.
SemiStart(t) ==
    IF Find(Strip(SliceFrom(t, 1)), BINARY_MARKER) = 0
    THEN LET i == Find(SliceFrom(t, 32), BINARY_MARKER)
         IN  IF i = -1 THEN 0 ELSE i + 32 + Len(BINARY_MARKER)
    ELSE 0

\* Lines 410-412, 431, 451, 468-473: the head of the outer loop.
TopStep(st) ==
    LET t == st.sText
    IN  IF Len(t) = 0 THEN [st EXCEPT !.pc = "done"]
        ELSE IF t[1] = "'" THEN SplitState(t, st.lFields, 0, "squote")
        ELSE IF t[1] = "\"" THEN SplitState(t, st.lFields, 0, "dquote")
        ELSE IF t[1] = ";" THEN SplitState(t, st.lFields, SemiStart(t), "semi")
        ELSE LET f == FirstWord(t)
             IN  IF f = <<>> THEN [st EXCEPT !.pc = "error"]
                 ELSE SplitState(Strip(SliceFrom(t, Len(f))),
                                 Append(st.lFields, f), st.idx, "top")

\* Lines 415-429 and 434-450: one pass of the scan for the closing quote q.
QuoteIter(st, q) ==
    LET t == st.sText
        i == st.idx + 1 + Find(SliceFrom(t, st.idx + 1), <<q>>)
    IN  IF i >= Len(t) - 1
        THEN SplitState(<<>>, Append(st.lFields, Strip(Slice(t, 1, -1))), i, "top")
        ELSE IF At(t, i + 1) \in BLANK
        THEN SplitState(Strip(SliceFrom(t, i + 1)),
                        Append(st.lFields, Strip(Slice(t, 1, i))), i, "top")
        ELSE [st EXCEPT !.idx = i]

\* Lines 461-467: one pass of the scan for the closing ";".
SemiIter(st) ==
    LET t == st.sText
        i == st.idx + 1 + Find(SliceFrom(t, st.idx + 1), <<";">>)
    IN  IF At(t, i - 1) \in EOL
        THEN SplitState(Strip(SliceFrom(t, i + 1)),
                        Append(st.lFields, Strip(Slice(t, 1, i - 1))), i, "top")
        ELSE [st EXCEPT !.idx = i]

SplitStep(st) ==
    CASE st.pc = "top" -> TopStep(st)
      [] st.pc = "squote" -> QuoteIter(st, "'")
      [] st.pc = "dquote" -> QuoteIter(st, "\"")
      [] st.pc = "semi" -> SemiIter(st)
      [] OTHER -> st

\* The whole of _splitCIF: the steps run until the loop is left.  A pass
\* that leaves the state as it found it repeats for ever: pc "hang".
RECURSIVE SplitRun(_)
SplitRun(st) ==
    IF st.pc \in {"done", "error", "hang"} THEN st
    ELSE LET n == SplitStep(st)
         IN  IF n = st THEN [st EXCEPT !.pc = "hang"] ELSE SplitRun(n)

\* CIF._splitCIF(sText)
SplitCIF(t) == SplitRun(SplitState(t, <<>>, 0, "top"))

(***************************************************************************)
(* The CIF object: a dict with the list _ordered beside it (lines 245-280) *)
(***************************************************************************)
\* A CIF object: the list of keys in order, and the dict proper.
CIFObject(o, d) == [ordered |-> o, dict |-> d]

\* CIF() (lines 255-263)
EmptyDict == [k \in {} |-> <<>>]

EmptyCIF == CIFObject(<<>>, EmptyDict)

\* dict.__setitem__
DictSet(d, k, v) == [x \in (DOMAIN d) \cup {k} |-> IF x = k THEN v ELSE d[x]]

\* __setitem__ without the test of line 268: the key is appended each time.
SetItemAlwaysAppend(c, k, v) ==
    CIFObject(Append(c.ordered, k), DictSet(c.dict, k, v))

\* CIF.__setitem__ (lines 267-270)
SetItem(c, k, v) ==
    CIFObject(IF k \in Range(c.ordered) THEN c.ordered ELSE Append(c.ordered, k),
              DictSet(c.dict, k, v))

\* list.remove(k): the first k is taken out.
ListRemove(l, k) ==
    LET at == SetMin({i \in 1..Len(l) : l[i] = k})
    IN  SubSeq(l, 1, at - 1) \o SubSeq(l, at + 1, Len(l))

\* dict.pop(k), for a key the dict holds.
DictDel(d, k) == [x \in (DOMAIN d) \ {k} |-> d[x]]

\* CIF.pop (lines 272-275): [cif, raised]; dict.pop raises KeyError for a
\* key the dict does not hold, after line 274 has run.
Pop(c, k) ==
    LET o == IF k \in Range(c.ordered) THEN ListRemove(c.ordered, k) ELSE c.ordered
    IN  IF k \in DOMAIN c.dict
        THEN [cif |-> CIFObject(o, DictDel(c.dict, k)), raised |-> FALSE]
        ELSE [cif |-> CIFObject(o, c.dict), raised |-> TRUE]

\* CIF.popitem (lines 277-280): [cif, raised]; dict.popitem takes no
\* argument, so line 280 raises TypeError every time, after line 279.
PopItem(c, k) ==
    LET o == IF k \in Range(c.ordered) THEN ListRemove(c.ordered, k) ELSE c.ordered
    IN  [cif |-> CIFObject(o, c.dict), raised |-> TRUE]

(***************************************************************************)
(* CIF._analyseOneLoop (lines 477-539)                                     *)
(***************************************************************************)
LOOP_ == <<"l","o","o","p","_">>

STOP_ == <<"s","t","o","p","_">>

GLOBAL_ == <<"g","l","o","b","a","l","_">>

DATA_ == <<"d","a","t","a","_">>

SAVE_ == <<"s","a","v","e","_">>

QUESTION == <<"?">>

\* The record a row of a loop becomes: element[j] = vals[k] for each key j
\* in turn (lines 518-524, 532-535); a key listed twice keeps the value
\* assigned last.
RowRecord(keys, vals) ==
    [name \in Range(keys) |->
        vals[SetMax({m \in 1..Len(keys) : keys[m] = name})]]

\* LoopRecords with the value index k set back to 0 for every row: each
\* record repeats the first row.
LoopRecordsRowReset(keys, data) ==
    IF Len(data) < Len(keys)
    THEN <<RowRecord(keys, [m \in 1..Len(keys) |->
                                IF m <= Len(data) THEN data[m] ELSE QUESTION])>>
    ELSE [r \in 1..(Len(data) \div Len(keys)) |->
             RowRecord(keys, SubSeq(data, 1, Len(keys)))]

\* Lines 517-537: the records made of the keys and the data.  With no key
\* the division of line 531 raises ZeroDivisionError.
LoopRecords(keys, data) ==
    IF Len(data) < Len(keys)
    THEN <<RowRecord(keys, [m \in 1..Len(keys) |->
                                IF m <= Len(data) THEN data[m] ELSE QUESTION])>>
    ELSE [r \in 1..(Len(data) \div Len(keys)) |->
             RowRecord(keys, SubSeq(data, (r - 1) * Len(keys) + 1, r * Len(keys)))]

\* CIF._analyseOneLoop(lFields, iStart): [status, loop, length, keys].
\* status is "error" where the code raises: IndexError at line 496 (the
\* fields end, or an empty field, while the keys are read) and
\* ZeroDivisionError at line 531 (no key).
AnalyseOneLoop(fields, start) ==
    LET n == Len(fields)
        \* lines 493-500: the first field from start+1 that is no key
        notKey == {j \in (start + 1)..(n - 1) :
                      fields[j + 1] = <<>> \/ fields[j + 1][1] # "_"}
        kEnd == IF notKey = {} THEN n ELSE SetMin(notKey)
        keys == SubSeq(fields, start + 2, kEnd)
        \* lines 501-513: the first field from there that is no data
        notData == {j \in kEnd..(n - 1) :
                       \/ fields[j + 1] = <<>>
                       \/ fields[j + 1][1] = "_"
                       \/ fields[j + 1] \in {LOOP_, STOP_, GLOBAL_, DATA_, SAVE_}}
        dEnd == IF notData = {} THEN n ELSE SetMin(notData)
        data == SubSeq(fields, kEnd + 1, dEnd)
        failed == [status |-> "error", loop |-> <<>>, length |-> 0, keys |-> <<>>]
    IN  IF kEnd >= n \/ fields[kEnd + 1] = <<>> THEN failed
        ELSE IF Len(keys) = 0 THEN failed
        ELSE [status |-> "ok", loop |-> LoopRecords(keys, data),
              length |-> 1 + Len(keys) + Len(data), keys |-> keys]

(***************************************************************************)
(* CIF._parseCIF (lines 358-396)                                           *)
(***************************************************************************)
UpperCase ==
    <<"A","B","C","D","E","F","G","H","I","J","K","L","M",
      "N","O","P","Q","R","S","T","U","V","W","X","Y","Z">>

LowerCase ==
    <<"a","b","c","d","e","f","g","h","i","j","k","l","m",
      "n","o","p","q","r","s","t","u","v","w","x","y","z">>

\* str.lower()
Lower(s) ==
    [i \in 1..Len(s) |->
        IF \E m \in 1..26 : UpperCase[m] = s[i]
        THEN LowerCase[CHOOSE m \in 1..26 : UpperCase[m] = s[i]]
        ELSE s[i]]

\* Lines 376-378: the 0-based positions of the loop_ fields, ascending.
RECURSIVE LoopIdxFrom(_, _)
LoopIdxFrom(fields, i) ==
    IF i >= Len(fields) THEN <<>>
    ELSE IF Lower(fields[i + 1]) = LOOP_ THEN <<i>> \o LoopIdxFrom(fields, i + 1)
    ELSE LoopIdxFrom(fields, i + 1)

LoopIdx(fields) == LoopIdxFrom(fields, 0)

\* Lines 386-388: the spans of the loops cut out of the fields, last first.
RECURSIVE CutLoops(_, _, _, _)
CutLoops(fields, loopidx, looplen, i) ==
    IF i = 0 THEN fields
    ELSE CutLoops(Slice(fields, 0, loopidx[i])
                      \o SliceFrom(fields, loopidx[i] + looplen[i]),
                  loopidx, looplen, i - 1)

\* Lines 392-396, from the pair (i, i+1) on (0-based): an empty next field
\* becomes "?", and a key followed by what is no key is set.
RECURSIVE PairFields(_, _, _)
PairFields(c, fields, i) ==
    IF i >= Len(fields) - 1 THEN c
    ELSE LET nxt == IF Len(fields[i + 2]) = 0 THEN QUESTION ELSE fields[i + 2]
             fixed == [fields EXCEPT ![i + 2] = nxt]
         IN  IF fixed[i + 1][1] = "_" /\ nxt[1] # "_"
             THEN PairFields(SetItem(c, fixed[i + 1], nxt), fixed, i + 1)
             ELSE PairFields(c, fixed, i + 1)

\* The fields once split: lines 376-396.  [status, cif, fields]: fields is
\* the list the loops were cut out of.  status is "error" where the code
\* raises: in _analyseOneLoop, or IndexError at line 395 on an empty first
\* field.
AssembleFields(c, fields) ==
    LET loopidx == LoopIdx(fields)
        res == [i \in 1..Len(loopidx) |-> AnalyseOneLoop(fields, loopidx[i])]
        loop == [i \in 1..Len(loopidx) |-> <<res[i].keys, res[i].loop>>]
        looplen == [i \in 1..Len(loopidx) |-> res[i].length]
        rest == CutLoops(fields, loopidx, looplen, Len(loopidx))
        c1 == IF Len(loopidx) > 0 THEN SetItem(c, LOOP_, loop) ELSE c
    IN  IF \E i \in 1..Len(loopidx) : res[i].status = "error"
        THEN [status |-> "error", cif |-> c, fields |-> fields]
        ELSE IF Len(rest) >= 2 /\ rest[1] = <<>>
        THEN [status |-> "error", cif |-> c1, fields |-> rest]
        ELSE [status |-> "ok", cif |-> PairFields(c1, rest, 0), fields |-> rest]

\* CIF._parseCIF(sText) on the CIF object c: [status, cif, fields].  status
\* is "hang" when _splitCIF does not return.
ParseCIF(c, text) ==
    LET sp == SplitCIF(Strip(text))
    IN  IF sp.pc = "done" THEN AssembleFields(c, sp.lFields)
        ELSE [status |-> sp.pc, cif |-> c, fields |-> <<>>]

(***************************************************************************)
(* CIF.tostring (lines 575-648)                                            *)
(***************************************************************************)
\* The 256 byte values in order: Chr[b + 1] is the character of byte b.
Chr ==
    <<"<00>","<01>","<02>","<03>","<04>","<05>","<06>","<07>","<08>","\t",
      "\n","<0B>","\f","\r","<0E>","<0F>","<10>","<11>","<12>","<13>",
      "<14>","<15>","<16>","<17>","<18>","<19>","<1A>","<1B>","<1C>","<1D>",
      "<1E>","<1F>"," ","!","\"","#","$","%","&","'","(",")","*","+",",",
      "-",".","/","0","1","2","3","4","5","6","7","8","9",":",";","<","=",
      ">","?","@","A","B","C","D","E","F","G","H","I","J","K","L","M","N",
      "O","P","Q","R","S","T","U","V","W","X","Y","Z","[","\\","]","^","_",
      "<60>","a","b","c","d","e","f","g","h","i","j","k","l","m","n","o","p",
      "q","r","s","t","u","v","w","x","y","z","{","|","}","~","<7F>","<80>",
      "<81>","<82>","<83>","<84>","<85>","<86>","<87>","<88>","<89>","<8A>",
      "<8B>","<8C>","<8D>","<8E>","<8F>","<90>","<91>","<92>","<93>","<94>",
      "<95>","<96>","<97>","<98>","<99>","<9A>","<9B>","<9C>","<9D>","<9E>",
      "<9F>","<A0>","<A1>","<A2>","<A3>","<A4>","<A5>","<A6>","<A7>","<A8>",
      "<A9>","<AA>","<AB>","<AC>","<AD>","<AE>","<AF>","<B0>","<B1>","<B2>",
      "<B3>","<B4>","<B5>","<B6>","<B7>","<B8>","<B9>","<BA>","<BB>","<BC>",
      "<BD>","<BE>","<BF>","<C0>","<C1>","<C2>","<C3>","<C4>","<C5>","<C6>",
      "<C7>","<C8>","<C9>","<CA>","<CB>","<CC>","<CD>","<CE>","<CF>","<D0>",
      "<D1>","<D2>","<D3>","<D4>","<D5>","<D6>","<D7>","<D8>","<D9>","<DA>",
      "<DB>","<DC>","<DD>","<DE>","<DF>","<E0>","<E1>","<E2>","<E3>","<E4>",
      "<E5>","<E6>","<E7>","<E8>","<E9>","<EA>","<EB>","<EC>","<ED>","<EE>",
      "<EF>","<F0>","<F1>","<F2>","<F3>","<F4>","<F5>","<F6>","<F7>","<F8>",
      "<F9>","<FA>","<FB>","<FC>","<FD>","<FE>","<FF>">>

\* ord(c)
Ord(c) == CHOOSE b \in 0..255 : Chr[b + 1] = c

\* a < b as Python compares two str: by the first character that differs,
\* a proper prefix first.
StrLess(a, b) ==
    LET n == IF Len(a) < Len(b) THEN Len(a) ELSE Len(b)
        diff == {i \in 1..n : a[i] # b[i]}
    IN  IF diff = {} THEN Len(a) < Len(b)
        ELSE Ord(a[SetMin(diff)]) < Ord(b[SetMin(diff)])

\* sorted(S) for a set of str
RECURSIVE Sorted(_)
Sorted(S) ==
    IF S = {} THEN <<>>
    ELSE LET m == CHOOSE x \in S : \A y \in S \ {x} : StrLess(x, y)
         IN  <<m>> \o Sorted(S \ {m})

\* len(s.split()): the number of runs of characters that are no white space.
WordCount(s) ==
    Cardinality({i \in 1..Len(s) :
                    s[i] \notin WS /\ (i = 1 \/ s[i - 1] \in WS)})

\* __version__ (lines 17-19)
VERSION ==
    <<
      <<"G","e","n","e","r","a","t","e","d"," ","b","y"," ","C","I","F",".",
        "p","y",":"," ","J","a","n"," ","2","0","0","5"," ","-"," ","A","p",
        "r","i","l"," ","2","0","1","2">>,
      <<"W","r","i","t","t","e","n"," ","b","y"," ","J","e","r","o","m","e",
        " ","K","i","e","f","f","e","r",":"," ","J","e","r","o","m","e",".",
        "K","i","e","f","f","e","r","@","e","s","r","f",".","e","u">>,
      <<"O","n","-","l","i","n","e"," ","d","a","t","a"," ","a","n","a","l",
        "y","s","i","s"," ","/"," ","I","S","D","D"," ">>,
      <<"E","S","R","F"," ","G","r","e","n","o","b","l","e"," ","(","F","r",
        "a","n","c","e",")">>
    >>

CHEMICAL_NAME == <<"_","c","h","e","m","i","c","a","l","_","n","a","m","e","_",
                   "c","o","m","m","o","n">>

\* The column limit of a key's line (lines 612, 618).
KeyLineLimit == 80

\* The column limit of a loop's row (line 641).
RowLineLimit == 78

\* "%s        %s" % (a, b) (lines 611, 617)
KeyValueLine(a, b) == a \o <<" "," "," "," "," "," "," "," ">> \o b

Quoted(v) == <<"'">> \o v \o <<"'">>

\* Lines 607-621: the lines one key and its value are rendered as.
KeyLines(sKey, sValue) ==
    IF Find(sValue, <<"\n">>) > -1
    THEN <<sKey, <<";">>, sValue, <<";">>, <<>>>>
    ELSE LET sLine == IF WordCount(sValue) > 1
                      THEN KeyValueLine(sKey, Quoted(sValue))
                      ELSE KeyValueLine(sKey, sValue)
         IN  IF Len(sLine) > KeyLineLimit THEN <<sKey, sValue>> ELSE <<sLine>>

\* Lines 600-622: the for loop over self._ordered from index i on.  The
\* list iterator goes on to index i + 1 whatever the body did, also after
\* line 604 took the key at i out of the list.  [ordered, lines, keys]:
\* keys are the keys rendered, in the order of their lines.
RECURSIVE RenderKeys(_, _, _, _, _)
RenderKeys(o, d, i, lines, keys) ==
    IF i >= Len(o) THEN [ordered |-> o, lines |-> lines, keys |-> keys]
    ELSE LET sKey == o[i + 1]
         IN  IF sKey = LOOP_ THEN RenderKeys(o, d, i + 1, lines, keys)
             ELSE IF sKey \notin DOMAIN d
             THEN RenderKeys(ListRemove(o, sKey), d, i + 1, lines, keys)
             ELSE RenderKeys(o, d, i + 1, lines \o KeyLines(sKey, d[sKey]),
                             Append(keys, sKey))

\* Lines 630-646: the lines of one row lData of a loop, the values taken in
\* the order of lKeys from key number m on, sLine being the line under way.
RECURSIVE RowLines(_, _, _, _)
RowLines(lKeys, lData, m, sLine) ==
    IF m > Len(lKeys) THEN <<sLine>>
    ELSE LET sRawValue == lData[lKeys[m]]
             value == IF WordCount(sRawValue) > 1 THEN Quoted(sRawValue)
                      ELSE sRawValue
         IN  IF Find(sRawValue, <<"\n">>) > -1
             THEN <<sLine, <<";">>, sRawValue, <<";">>>>
                      \o RowLines(lKeys, lData, m + 1, <<" ">>)
             ELSE IF Len(sLine) + Len(value) > RowLineLimit
             THEN <<sLine>> \o RowLines(lKeys, lData, m + 1, <<" ">> \o value)
             ELSE RowLines(lKeys, lData, m + 1, sLine \o <<" ">> \o value)

\* The row lines of all the rows of one loop, from row r on.
RECURSIVE LoopRowLines(_, _, _)
LoopRowLines(lKeys, llData, r) ==
    IF r > Len(llData) THEN <<>>
    ELSE RowLines(lKeys, llData[r], 1, <<" ">>) \o LoopRowLines(lKeys, llData, r + 1)

\* Lines 624-647: the lines of one loop.
LoopLines(loop) ==
    <<LOOP_ \o <<" ">>>>
        \o [m \in 1..Len(loop[1]) |-> <<" ">> \o loop[1][m]]
        \o LoopRowLines(loop[1], loop[2], 1)
        \o <<<<>>>>

RECURSIVE AllLoopLines(_, _)
AllLoopLines(loops, i) ==
    IF i > Len(loops) THEN <<>>
    ELSE LoopLines(loops[i]) \o AllLoopLines(loops, i + 1)

\* The lines among them that lines 634, 642 and 646 emit for the rows.
RECURSIVE AllRowLines(_, _)
AllRowLines(loops, i) ==
    IF i > Len(loops) THEN <<>>
    ELSE LoopRowLines(loops[i][1], loops[i][2], 1) \o AllRowLines(loops, i + 1)

\* linesep.join(lines)
RECURSIVE Join(_, _)
Join(lines, sep) ==
    IF Len(lines) = 0 THEN <<>>
    ELSE IF Len(lines) = 1 THEN lines[1]
    ELSE lines[1] \o sep \o Join(Tail(lines), sep)

\* os.path.splitext(os.path.split(str(name).strip())[1])[0] (line 588)
BaseName(name) ==
    LET n == Strip(name)
        slash == {i \in 1..Len(n) : n[i] = "/"}
        tail == IF slash = {} THEN n ELSE SubSeq(n, SetMax(slash) + 1, Len(n))
        lead == {i \in 1..Len(tail) : tail[i] # "."}
        dot == {i \in 1..Len(tail) : tail[i] = "." /\ lead # {} /\ i > SetMin(lead)}
    IN  IF dot = {} THEN tail ELSE SubSeq(tail, 1, SetMax(dot) - 1)

\* The data_ line (lines 585-591).  named tells whether _strFilename is
\* given.  <<>> stands for the IndexError of line 586 on a value of
\* _chemical_name_common without a word.
DataLine(d, named, name) ==
    IF CHEMICAL_NAME \in DOMAIN d
    THEN DATA_ \o FirstWord(d[CHEMICAL_NAME])
    ELSE IF named THEN DATA_ \o BaseName(name)
    ELSE DATA_

\* CIF.tostring(_strFilename, linesep) on the CIF object c:
\* [status, ordered, lines, keys, rowLines, text]; ordered is self._ordered
\* as the call leaves it (lines 598, 604), lines is lstStrCif, keys are the
\* keys rendered in the order of their lines, and rowLines are the lines of
\* lstStrCif that hold the rows of the loops.
Tostring(c, named, name, linesep) ==
    LET d == c.dict
        head == [i \in 1..Len(VERSION) |-> <<"#", " ">> \o VERSION[i]]
                    \o <<DataLine(d, named, name)>>
        lKeys == Sorted((DOMAIN d) \ Range(c.ordered))
        body == RenderKeys(c.ordered \o lKeys, d, 0, <<>>, <<>>)
        loops == IF LOOP_ \in DOMAIN d THEN AllLoopLines(d[LOOP_], 1) ELSE <<>>
        lstStrCif == head \o body.lines \o loops
    IN  IF CHEMICAL_NAME \in DOMAIN d /\ FirstWord(d[CHEMICAL_NAME]) = <<>>
        THEN [status |-> "error", ordered |-> c.ordered, lines |-> <<>>,
              keys |-> <<>>, rowLines |-> <<>>, text |-> <<>>]
        ELSE [status |-> "ok", ordered |-> body.ordered, lines |-> lstStrCif,
              keys |-> body.keys,
              rowLines |-> IF LOOP_ \in DOMAIN d THEN AllRowLines(d[LOOP_], 1)
                           ELSE <<>>,
              text |-> Join(lstStrCif, linesep)]

\* tostring not called.
NotRendered ==
    [status |-> "none", ordered |-> <<>>, lines |-> <<>>, keys |-> <<>>,
     rowLines |-> <<>>, text |-> <<>>]

(***************************************************************************)
(* The byte-offset codec (compression.compByteOffet_numpy and              *)
(* compression.decByteOffet_numpy, described in section 4.3 of the         *)
(* specification).  A sample is a 64-bit two's-complement integer, held as *)
(* the tuple of its 8 bytes, least significant first; the arithmetic is    *)
(* that of numpy's int64 and wraps modulo 2^64.                            *)
(***************************************************************************)
\* The 64-bit sample of an integer n of at most 32 bits.
I64(n) ==
    [i \in 1..8 |-> IF i <= 4 THEN (n \div (256 ^ (i - 1))) % 256
                    ELSE IF n < 0 THEN 255 ELSE 0]

\* a + b modulo 2^64: the carry into byte i is that of the bytes below it.
RECURSIVE Carry(_, _, _)
Carry(a, b, i) ==
    IF i = 1 THEN 0 ELSE (a[i - 1] + b[i - 1] + Carry(a, b, i - 1)) \div 256

Add64(a, b) == [i \in 1..8 |-> (a[i] + b[i] + Carry(a, b, i)) % 256]

\* a - b modulo 2^64
Sub64(a, b) == Add64(a, Add64([i \in 1..8 |-> 255 - b[i]], I64(1)))

\* The 64-bit sample of the signed little-endian integer of the bytes bs.
SignExtend(bs) ==
    [i \in 1..8 |-> IF i <= Len(bs) THEN bs[i]
                    ELSE IF bs[Len(bs)] >= 128 THEN 255 ELSE 0]

\* The n low bytes of the sample d.
LowBytes(d, n) == SubSeq(d, 1, n)

\* The escape sentinel of width n: the least signed integer of n bytes
\* (-128, -32768, INT32_MIN).
Escape(n) == [i \in 1..n |-> IF i = n THEN 128 ELSE 0]

\* The sample d fits a signed integer of n bytes.
FitsIn(d, n) == SignExtend(LowBytes(d, n)) = d

\* EncodeDelta taking the narrowest width that holds the delta, the escape
\* sentinels of the widths among the values it writes.
EncodeDeltaColliding(d) ==
    IF FitsIn(d, 1) THEN LowBytes(d, 1)
    ELSE IF FitsIn(d, 2) THEN Escape(1) \o LowBytes(d, 2)
    ELSE IF FitsIn(d, 4) THEN Escape(1) \o Escape(2) \o LowBytes(d, 4)
    ELSE Escape(1) \o Escape(2) \o Escape(4) \o d

\* Encode, one delta: the narrowest of 1, 2, 4 bytes that holds the delta
\* and is not the escape sentinel of its width, behind the sentinels of the
\* narrower widths; 8 bytes behind all three sentinels otherwise.
EncodeDelta(d) ==
    IF FitsIn(d, 1) /\ LowBytes(d, 1) # Escape(1) THEN LowBytes(d, 1)
    ELSE IF FitsIn(d, 2) /\ LowBytes(d, 2) # Escape(2)
    THEN Escape(1) \o LowBytes(d, 2)
    ELSE IF FitsIn(d, 4) /\ LowBytes(d, 4) # Escape(4)
    THEN Escape(1) \o Escape(2) \o LowBytes(d, 4)
    ELSE Escape(1) \o Escape(2) \o Escape(4) \o d

\* Encode from sample number i on, previous being the sample before it.
RECURSIVE EncodeFrom(_, _, _)
EncodeFrom(x, i, previous) ==
    IF i > Len(x) THEN <<>>
    ELSE EncodeDelta(Sub64(x[i], previous)) \o EncodeFrom(x, i + 1, x[i])

\* Encode(x): the bytes, as numbers 0..255, of the sequence of samples x.
Encode(x) == EncodeFrom(x, 1, I64(0))

\* Decode, one delta read at position p (1-based) of the bytes bs:
\* [ok, delta, next]; ok is FALSE when the bytes end inside the delta.
DecodeDelta(bs, p) ==
    LET has(n) == p + n - 1 <= Len(bs)
        at(q, n) == SubSeq(bs, q, q + n - 1)
        short == [ok |-> FALSE, delta |-> I64(0), next |-> p]
        got(q, n) == [ok |-> TRUE, delta |-> SignExtend(at(q, n)), next |-> q + n]
    IN  IF ~has(1) THEN short
        ELSE IF at(p, 1) # Escape(1) THEN got(p, 1)
        ELSE IF ~has(3) THEN short
        ELSE IF at(p + 1, 2) # Escape(2) THEN got(p + 1, 2)
        ELSE IF ~has(7) THEN short
        ELSE IF at(p + 3, 4) # Escape(4) THEN got(p + 3, 4)
        ELSE IF ~has(15) THEN short
        ELSE got(p + 7, 8)

\* Decode from position p on, count samples still to produce, current
\* being the running sum.
RECURSIVE DecodeFrom(_, _, _, _)
DecodeFrom(bs, p, count, current) ==
    LET cons(v, rest) == [status |-> rest.status, values |-> <<v>> \o rest.values]
        sum(d, v) == cons(v, DecodeFrom(bs, d.next, count - 1, v))
        step(d) == IF ~d.ok THEN [status |-> "size", values |-> <<>>]
                   ELSE sum(d, Add64(current, d.delta))
    IN  IF count <= 0
        THEN [status |-> IF p = Len(bs) + 1 THEN "ok" ELSE "size", values |-> <<>>]
        ELSE step(DecodeDelta(bs, p))

\* Decode(bytes, expectedCount): [status, values]; status is "size" when
\* the bytes end before expectedCount samples are produced or bytes remain
\* when they are.
Decode(bs, expectedCount) == DecodeFrom(bs, 1, expectedCount, I64(0))

\* The text of bytes and the bytes of a text.
ToText(bs) == [i \in 1..Len(bs) |-> Chr[bs[i] + 1]]

ToBytes(t) == [i \in 1..Len(t) |-> Ord(t[i])]

(***************************************************************************)
(* cbfimage: constants and the str and int operations of its methods       *)
(***************************************************************************)
\* STARTER (line 43)
STARTER == <<"\f", "<1A>", "<04>", "<D5>">>

ARRAY_DATA == <<"_","a","r","r","a","y","_","d","a","t","a",".","d","a","t","a">>

HEADER_CONTENTS ==
    <<"_","a","r","r","a","y","_","d","a","t","a",".","h","e","a","d","e","r",
    "_","c","o","n","t","e","n","t","s">>

FASTEST_DIMENSION ==
    <<"X","-","B","i","n","a","r","y","-","S","i","z","e","-","F","a","s","t",
    "e","s","t","-","D","i","m","e","n","s","i","o","n">>

SECOND_DIMENSION ==
    <<"X","-","B","i","n","a","r","y","-","S","i","z","e","-","S","e","c","o",
    "n","d","-","D","i","m","e","n","s","i","o","n">>

ELEMENT_TYPE ==
    <<"X","-","B","i","n","a","r","y","-","E","l","e","m","e","n","t","-","T",
    "y","p","e">>

BINARY_SIZE == <<"X","-","B","i","n","a","r","y","-","S","i","z","e">>

CONVERSIONS == <<"c","o","n","v","e","r","s","i","o","n","s">>

BYTE_OFFSET == <<"x","-","C","B","F","_","B","Y","T","E","_","O","F","F","S","E","T">>

INT32 ==
    <<"s","i","g","n","e","d"," ","3","2","-","b","i","t"," ","i","n","t","e",
    "g","e","r">>

\* DATA_TYPES (lines 29-33): the name of an element type and the number
\* of bytes of the numpy type it stands for.
DATA_TYPES ==
    (<<"s","i","g","n","e","d"," ","8","-","b","i","t"," ","i","n","t","e",
       "g","e","r">> :> 1)
    @@ (<<"s","i","g","n","e","d"," ","1","6","-","b","i","t"," ","i","n","t",
          "e","g","e","r">> :> 2)
    @@ (INT32 :> 4)
    @@ (<<"s","i","g","n","e","d"," ","6","4","-","b","i","t"," ","i","n","t",
          "e","g","e","r">> :> 8)

\* The characters str.strip(" \"\n\r\t") takes off (lines 85, 106).
HEADER_STRIP == {" ", "\"", "\n", "\r", "\t"}

CRLF == <<"\r", "\n">>

LF == <<"\n">>

\* s.split(sep): the pieces of s between the occurrences of sep.
RECURSIVE SplitSep(_, _)
SplitSep(s, sep) ==
    LET i == Find(s, sep)
    IN  IF i = -1 THEN <<s>>
        ELSE <<Slice(s, 0, i)>> \o SplitSep(SliceFrom(s, i + Len(sep)), sep)

\* s.split(sep, 1): s cut at the first sep, or s alone.
SplitOnce(s, sep) ==
    LET i == Find(s, sep)
    IN  IF i = -1 THEN <<s>>
        ELSE <<Slice(s, 0, i), SliceFrom(s, i + Len(sep))>>

Digits == <<"0","1","2","3","4","5","6","7","8","9">>

\* The number a string of digits writes.
RECURSIVE DigitsValue(_)
DigitsValue(ds) ==
    IF Len(ds) = 0 THEN 0
    ELSE 10 * DigitsValue(SubSeq(ds, 1, Len(ds) - 1)) + (CHOOSE m \in 0..9 : Digits[m + 1] = ds[Len(ds)])

\* int(s): [ok, value].  White space around the number is dropped, one
\* sign may lead, digits must follow and nothing else; ok is FALSE where
\* int raises ValueError.
IntParse(s) ==
    LET t == Strip(s)
        signed == Len(t) > 0 /\ t[1] \in {"+", "-"}
        ds == IF signed THEN Tail(t) ELSE t
    IN  IF Len(ds) > 0 /\ \A i \in 1..Len(ds) : ds[i] \in Range(Digits)
        THEN [ok |-> TRUE,
              value |-> IF signed /\ t[1] = "-" THEN 0 - DigitsValue(ds)
                        ELSE DigitsValue(ds)]
        ELSE [ok |-> FALSE, value |-> 0]

\* "%d" % n
RECURSIVE IntFormat(_)
IntFormat(n) ==
    IF n < 0 THEN <<"-">> \o IntFormat(0 - n)
    ELSE IF n < 10 THEN <<Digits[n + 1]>>
    ELSE IntFormat(n \div 10) \o <<Digits[(n % 10) + 1]>>

(***************************************************************************)
(* cbfimage._readheader (lines 72-112)                                     *)
(***************************************************************************)
\* Lines 82-85, the keys of self.cif taken in the order keys, from key
\* number i on: [status, header, header_keys].  The value of "loop_" is a
\* list, which has no strip: AttributeError, after line 84 has run.
RECURSIVE CopyKeys(_, _, _, _, _)
CopyKeys(d, keys, i, header, header_keys) ==
    IF i > Len(keys)
    THEN [status |-> "ok", header |-> header, header_keys |-> header_keys]
    ELSE IF keys[i] = ARRAY_DATA
    THEN CopyKeys(d, keys, i + 1, header, header_keys)
    ELSE IF keys[i] = LOOP_
    THEN [status |-> "AttributeError", header |-> header,
          header_keys |-> Append(header_keys, keys[i])]
    ELSE CopyKeys(d, keys, i + 1,
                  DictSet(header, keys[i], StripChars(d[keys[i]], HEADER_STRIP)),
                  Append(header_keys, keys[i]))

\* Lines 96-106, from line number i of lines on: [status, header,
\* header_keys].  A line of 10 characters or more with neither ":" nor "="
\* raises ValueError at line 103.
RECURSIVE BlockKeys(_, _, _, _)
BlockKeys(lines, i, header, header_keys) ==
    LET put(kv) ==
            IF Len(kv) < 2
            THEN [status |-> "ValueError", header |-> header,
                  header_keys |-> header_keys]
            ELSE BlockKeys(lines, i + 1,
                           DictSet(header, Strip(kv[1]),
                                   StripChars(kv[2], HEADER_STRIP)),
                           Append(header_keys, Strip(kv[1])))
        pick(byColon) ==
            put(IF Len(byColon) = 2 THEN byColon
                ELSE SplitOnce(lines[i], <<"=">>))
    IN  IF i > Len(lines) \/ Len(lines[i]) < 10
        THEN [status |-> "ok", header |-> header, header_keys |-> header_keys]
        ELSE pick(SplitOnce(lines[i], <<":">>))

\* cbfimage._readheader(inStream) with the header and the header_keys of
\* the image, p being what loadCIF came to at line 79: [status, cif,
\* header, header_keys].  keys is the order in which "for key in self.cif"
\* yields the keys.  status is "hang" when _splitCIF does not return,
\* "ParseError" when _parseCIF raises, "NoDataBlock" for the exception of
\* line 88.
ReadHeader(p, header, header_keys, keys) ==
    LET result(st, h, hk) ==
            [status |-> st, cif |-> p.cif, header |-> h, header_keys |-> hk]
        blockDone(block) == result(block.status, block.header, block.header_keys)
        sep(iSepPos) == IF iSepPos < 0 \/ iSepPos > 80 THEN LF ELSE CRLF
        binarySection(copied, inStream2) ==
            blockDone(BlockKeys(SplitSep(inStream2, sep(Find(inStream2, CRLF))),
                                2, copied.header, copied.header_keys))
        keysDone(copied) ==
            IF copied.status # "ok"
            THEN result(copied.status, copied.header, copied.header_keys)
            ELSE IF ARRAY_DATA \notin DOMAIN p.cif.dict
            THEN result("NoDataBlock", copied.header, copied.header_keys)
            ELSE binarySection(copied, p.cif.dict[ARRAY_DATA])
    IN  IF p.status = "hang" THEN result("hang", header, header_keys)
        ELSE IF p.status = "error" THEN result("ParseError", header, header_keys)
        ELSE keysDone(CopyKeys(p.cif.dict, keys, 1, header, header_keys))

(***************************************************************************)
(* cbfimage.read and cbfimage._readbinary_byte_offset (lines 115-172)      *)
(***************************************************************************)
\* An array [none, dtype, shape, flat]: the number of bytes of its element
\* type (0 for a type DATA_TYPES does not hold), its shape <<dim2, dim1>>
\* and its samples row after row.  none is TRUE for None, no array.
Array(dtype, shape, flat) ==
    [none |-> FALSE, dtype |-> dtype, shape |-> shape, flat |-> flat]

None == [none |-> TRUE, dtype |-> 0, shape |-> <<0, 0>>, flat |-> <<>>]

\* The image object: the attributes of fabioimage that cbfimage reads and
\* writes.  filename is <<>> until read sets it.
Image(header, header_keys, data) ==
    [header |-> header, header_keys |-> header_keys, data |-> data,
     dim1 |-> 0, dim2 |-> 0, bpp |-> 0, bytecode |-> 0, filename |-> <<>>]

\* HeaderInt giving 0 for a key that the header lacks and for a value that
\* is no integer.
HeaderIntLenient(header, key) == [ok |-> TRUE, value |-> 0]

\* int(self.header[key]) inside the try of lines 127-131: ok is FALSE for
\* KeyError and for ValueError alike.
HeaderInt(header, key) ==
    IF key \in DOMAIN header THEN IntParse(header[key])
    ELSE [ok |-> FALSE, value |-> 0]

\* cbfimage._readbinary_byte_offset(inStream) (lines 152-172), size being
\* self.dim1 * self.dim2: [status, called, found, payload, myData].
\* called tells whether the decoder was invoked, payload is what it was
\* given, found whether STARTER occurs in inStream.
ReadBinaryByteOffset(inStream, header, size) ==
    LET out(st, c, pl, vs) ==
            [status |-> st, called |-> c, found |-> Find(inStream, STARTER) # -1,
             payload |-> pl, myData |-> vs]
        decoded(data, d) ==
            IF d.status # "ok" THEN out("SizeMismatch", TRUE, data, <<>>)
            ELSE IF Len(d.values) # size
            THEN out("AssertionError", TRUE, data, d.values)
            ELSE out("ok", TRUE, data, d.values)
        sliced(data) == decoded(data, Decode(ToBytes(data), size))
        located(startPos, n) ==
            IF ~n.ok THEN out("ValueError", FALSE, <<>>, <<>>)
            ELSE sliced(Slice(inStream, startPos, startPos + n.value))
    IN  IF BINARY_SIZE \notin DOMAIN header THEN out("KeyError", FALSE, <<>>, <<>>)
        ELSE located(Find(inStream, STARTER) + 4, HeaderInt(header, BINARY_SIZE))

\* The messages of the exceptions of lines 131 and 142; the model does not
\* hold the messages of the other errors.
Message(error, fname) ==
    IF error = "NoDimensions"
    THEN <<"C","B","F"," ","f","i","l","e"," ">> \o fname
         \o <<" ","i","s"," ","c","o","r","r","u","p","t",","," ","n","o"," ",
              "d","i","m","e","n","s","i","o","n","s"," ","i","n"," ","i",
              "t">>
    ELSE IF error = "Unsupported"
    THEN <<"C","o","m","p","r","e","s","s","i","o","n"," ","s","c","h","e",
           "m","e"," ","n","o","t"," ","y","e","t"," ","s","u","p","p","o",
           "r","t","e","d",","," ","p","l","e","a","s","e"," ","c","o","n",
           "t","a","c","t"," ","F","A","B","I","O"," ","d","e","v","e","l",
           "o","p","m","e","n","t"," ","t","e","a","m">>
    ELSE <<>>

\* Supported taking every compression for the one read decodes.
SupportedAlways(header) == TRUE

\* Line 139: the compression of the header is the one read decodes.
Supported(header) == header[CONVERSIONS] = BYTE_OFFSET

\* What a call of read or write came to: the method, the file, "ok" or
\* "raised" or "hang", the error raised and its message, the steps of the
\* method that ran, in order, and for read what _readbinary_byte_offset did.
Outcome(op, fname, status, error, steps, bin) ==
    [op |-> op, fname |-> fname, status |-> status, error |-> error,
     message |-> Message(error, fname),
     steps |-> steps, called |-> bin.called, found |-> bin.found,
     payload |-> bin.payload]

NoBinary ==
    [status |-> "none", called |-> FALSE, found |-> FALSE, payload |-> <<>>,
     myData |-> <<>>]

NoOutcome == Outcome("none", <<>>, "ok", "none", <<>>, NoBinary)

\* cbfimage.read(fname) on the image img, p being what loadCIF came to on
\* the text of the file and the CIF object of the image: [img, cif,
\* outcome].  keys is the order in which the dict of self.cif yields its
\* keys at line 82; hasFname tells whether the image has the attribute
\* fname that line 88 reads.
Read(img, p, fname, keys, hasFname) ==
    LET out(i, h, status, error, steps, b) ==
            [img |-> i, cif |-> h.cif,
             outcome |-> Outcome("read", fname, status, error, steps, b)]
        decoded(img3, h, shape, width, bin) ==
            IF bin.status # "ok"
            THEN out(img3, h, "raised", bin.status,
                     <<"header", "dims", "type", "conversions", "binary">>, bin)
            ELSE IF shape[1] < 0 \/ shape[2] < 0
            THEN out(img3, h, "raised", "ValueError",
                     <<"header", "dims", "type", "conversions", "binary">>, bin)
            ELSE out([img3 EXCEPT
                         !.data = Array(width, shape,
                                        [i \in 1..Len(bin.myData) |->
                                            SignExtend(LowBytes(bin.myData[i], width))]),
                         !.bytecode = width],
                     h, "ok", "none",
                     <<"header", "dims", "type", "conversions", "binary", "data">>,
                     bin)
        typed(img3, h, shape, width) ==
            IF CONVERSIONS \notin DOMAIN h.header
            THEN out(img3, h, "raised", "KeyError",
                     <<"header", "dims", "type", "conversions">>, NoBinary)
            ELSE IF ~Supported(h.header)
            THEN out(img3, h, "raised", "Unsupported",
                     <<"header", "dims", "type", "conversions">>, NoBinary)
            ELSE decoded(img3, h, shape, width,
                         ReadBinaryByteOffset(h.cif.dict[ARRAY_DATA], h.header,
                                              shape[1] * shape[2]))
        sized(img2, h, known) ==
            typed([img2 EXCEPT !.bpp = IF known
                                       THEN DATA_TYPES[h.header[ELEMENT_TYPE]]
                                       ELSE 32],
                  h, <<img2.dim2, img2.dim1>>,
                  IF known THEN DATA_TYPES[h.header[ELEMENT_TYPE]] ELSE 4)
        dims(img0, h, d1, d2) ==
            IF ~d1.ok
            THEN out(img0, h, "raised", "NoDimensions", <<"header", "dims">>,
                     NoBinary)
            ELSE IF ~d2.ok
            THEN out([img0 EXCEPT !.dim1 = d1.value], h, "raised",
                     "NoDimensions", <<"header", "dims">>, NoBinary)
            ELSE sized([img0 EXCEPT !.dim1 = d1.value, !.dim2 = d2.value], h,
                       /\ ELEMENT_TYPE \in DOMAIN h.header
                       /\ h.header[ELEMENT_TYPE] \in DOMAIN DATA_TYPES)
        headed(img0, h) ==
            IF h.status = "hang"
            THEN out(img0, h, "hang", "none", <<"header">>, NoBinary)
            ELSE IF h.status = "NoDataBlock"
            THEN out(img0, h, "raised",
                     IF hasFname THEN "NoDataBlock" ELSE "AttributeError",
                     <<"header">>, NoBinary)
            ELSE IF h.status # "ok"
            THEN out(img0, h, "raised", h.status, <<"header">>, NoBinary)
            ELSE dims(img0, h, HeaderInt(h.header, FASTEST_DIMENSION),
                      HeaderInt(h.header, SECOND_DIMENSION))
        opened(h) ==
            headed([img EXCEPT !.filename = fname, !.header = h.header,
                               !.header_keys = h.header_keys], h)
    IN  opened(ReadHeader(p, EmptyDict, img.header_keys, keys))

(***************************************************************************)
(* cbfimage.write (lines 175-240)                                          *)
(***************************************************************************)
\* The lines and line heads of binary_block (lines 194-212).
CONVERSIONS_LINE ==
    <<" "," "," "," "," ","c","o","n","v","e","r","s","i","o","n","s","=",
    "\"","x","-","C","B","F","_","B","Y","T","E","_","O","F","F","S","E",
    "T","\"">>

SIZE_HEAD == <<"X","-","B","i","n","a","r","y","-","S","i","z","e",":"," ">>

TYPE_HEAD ==
    <<"X","-","B","i","n","a","r","y","-","E","l","e","m","e","n","t","-","T",
    "y","p","e",":"," ","\"">>

FASTEST_HEAD ==
    <<"X","-","B","i","n","a","r","y","-","S","i","z","e","-","F","a","s","t",
    "e","s","t","-","D","i","m","e","n","s","i","o","n",":"," ">>

SECOND_HEAD ==
    <<"X","-","B","i","n","a","r","y","-","S","i","z","e","-","S","e","c","o",
    "n","d","-","D","i","m","e","n","s","i","o","n",":"," ">>

\* compression.md5sum(blob): the MD5 digest of the blob in base 64, a word
\* of 24 characters.  No code of cbfimage reads the digest; the model
\* writes the 24 characters without computing them.
Md5sum(blob) == [i \in 1..24 |-> IF i > 22 THEN "=" ELSE "A"]

\* Lines 190-193: the name of the element type of the array.
TypeName(dtype) ==
    IF \E k \in DOMAIN DATA_TYPES : DATA_TYPES[k] = dtype
    THEN CHOOSE k \in DOMAIN DATA_TYPES : DATA_TYPES[k] = dtype
    ELSE <<"U","n","k","n","o","w","n">>

\* Lines 185-212: binary_block for the array data.
BinaryBlock(data) ==
    LET binary_blob == ToText(Encode(data.flat))
        dim2 == data.shape[1]
        dim1 == data.shape[2]
    IN  <<BINARY_MARKER,
          <<"C","o","n","t","e","n","t","-","T","y","p","e",":"," ","a","p",
            "p","l","i","c","a","t","i","o","n","/","o","c","t","e","t","-",
            "s","t","r","e","a","m",";">>,
          CONVERSIONS_LINE,
          <<"C","o","n","t","e","n","t","-","T","r","a","n","s","f","e","r",
            "-","E","n","c","o","d","i","n","g",":"," ","B","I","N","A","R",
            "Y">>,
          SIZE_HEAD \o IntFormat(Len(binary_blob)),
          <<"X","-","B","i","n","a","r","y","-","I","D",":"," ","1">>,
          TYPE_HEAD \o TypeName(data.dtype) \o <<"\"">>,
          <<"X","-","B","i","n","a","r","y","-","E","l","e","m","e","n","t",
            "-","B","y","t","e","-","O","r","d","e","r",":"," ","L","I","T",
            "T","L","E","_","E","N","D","I","A","N">>,
          <<"C","o","n","t","e","n","t","-","M","D","5",":"," ">>
              \o Md5sum(binary_blob),
          <<"X","-","B","i","n","a","r","y","-","N","u","m","b","e","r","-",
            "o","f","-","E","l","e","m","e","n","t","s",":"," ">>
              \o IntFormat(dim1 * dim2),
          FASTEST_HEAD \o IntFormat(dim1),
          SECOND_HEAD \o IntFormat(dim2),
          <<"X","-","B","i","n","a","r","y","-","S","i","z","e","-","P","a",
            "d","d","i","n","g",":"," ","1">>,
          <<>>,
          STARTER \o binary_blob,
          <<>>,
          BINARY_MARKER \o <<"-", "-">> >>

\* Line 217: the lines of _array_data.header_contents that hold "# ", each
\* trimmed and without its first two characters.
RECURSIVE HeaderComments(_, _)
HeaderComments(lines, i) ==
    IF i > Len(lines) THEN <<>>
    ELSE IF Find(lines[i], <<"#", " ">>) >= 0
    THEN <<SliceFrom(Strip(lines[i]), 2)>> \o HeaderComments(lines, i + 1)
    ELSE HeaderComments(lines, i + 1)

\* Lines 219-221: the keys of self.header that header_keys lacks, appended
\* in the order keys in which the dict yields them.
RECURSIVE AppendMissing(_, _, _)
AppendMissing(header_keys, keys, i) ==
    IF i > Len(keys) THEN header_keys
    ELSE IF keys[i] \in Range(header_keys)
    THEN AppendMissing(header_keys, keys, i + 1)
    ELSE AppendMissing(Append(header_keys, keys[i]), keys, i + 1)

\* Lines 222-235, from key number i of header_keys on: [status, cif,
\* nonCifHeaders].  A key that starts with "_" and that self.header does
\* not hold raises KeyError at line 224 or 225.
RECURSIVE CopyHeader(_, _, _, _, _)
CopyHeader(header_keys, i, header, c, nonCifHeaders) ==
    IF i > Len(header_keys)
    THEN [status |-> "ok", cif |-> c, nonCifHeaders |-> nonCifHeaders]
    ELSE LET key == header_keys[i]
             next(c1, n1) == CopyHeader(header_keys, i + 1, header, c1, n1)
         IN  IF StartsWith(key, <<"_">>)
             THEN IF key \notin DOMAIN header
                  THEN [status |-> "KeyError", cif |-> c,
                        nonCifHeaders |-> nonCifHeaders]
                  ELSE IF key \notin DOMAIN c.dict \/ c.dict[key] # header[key]
                  THEN next(SetItem(c, key, header[key]), nonCifHeaders)
                  ELSE next(c, nonCifHeaders)
             ELSE IF \/ StartsWith(key, <<"X","-","B","i","n","a","r","y","-">>)
                     \/ StartsWith(key, <<"C","o","n","t","e","n","t","-">>)
                     \/ StartsWith(key, CONVERSIONS)
                     \/ StartsWith(key, <<"f","i","l","e","n","a","m","e">>)
             THEN next(c, nonCifHeaders)
             ELSE IF key \in DOMAIN header
             THEN next(c, Append(nonCifHeaders, key \o <<" ">> \o header[key]))
             ELSE next(c, nonCifHeaders)

\* cbfimage.write(fname) on the image img with the CIF object c:
\* [img, cif, outcome, rendered, file].  keys is the order in which the
\* dict self.header yields its keys at line 219; rendered is what tostring
\* returns; file is [opened, text]: whether saveCIF has opened the file
\* fname for writing, and the content of the file as the call leaves it.
Write(img, c, fname, keys) ==
    LET out(i, cc, status, error, steps, rr, file) ==
            [img |-> i, cif |-> cc, rendered |-> rr, file |-> file,
             outcome |-> Outcome("write", fname, status, error, steps, NoBinary)]
        unopened == [opened |-> FALSE, text |-> <<>>]
        saved(img2, c2, r) ==
            IF r.status # "ok"
            THEN out(img2, c2, "raised", "IndexError",
                     <<"block", "header", "data", "open">>, NotRendered,
                     [opened |-> TRUE, text |-> <<>>])
            ELSE out(img2, CIFObject(r.ordered, c2.dict), "ok", "none",
                     <<"block", "header", "data", "open", "save">>, r,
                     [opened |-> TRUE, text |-> r.text])
        save(img2, c2) == saved(img2, c2, Tostring(c2, TRUE, fname, CRLF))
        setData(img2, c1) ==
            save(img2, SetItem(c1, ARRAY_DATA, Join(BinaryBlock(img.data), CRLF)))
        setContents(img2, copied) ==
            setData(img2,
                    IF Len(copied.nonCifHeaders) > 0
                    THEN SetItem(copied.cif, HEADER_CONTENTS,
                                 Join([i \in 1..Len(copied.nonCifHeaders) |->
                                          <<"#", " ">> \o copied.nonCifHeaders[i]],
                                      CRLF))
                    ELSE copied.cif)
        headerDone(img2, copied) ==
            IF copied.status # "ok"
            THEN out(img2, copied.cif, "raised", copied.status, <<"block">>,
                     NotRendered, unopened)
            ELSE setContents(img2, copied)
        blockDone(img2) ==
            headerDone(img2,
                       CopyHeader(img2.header_keys, 1, img.header, c,
                                  IF HEADER_CONTENTS \notin DOMAIN img.header
                                  THEN <<>>
                                  ELSE HeaderComments(
                                           SplitSep(img.header[HEADER_CONTENTS], LF),
                                           1)))
    IN  IF img.data.none
        THEN out(img, c, "raised", "RuntimeError", <<>>, NotRendered, unopened)
        ELSE blockDone([img EXCEPT
                           !.dim2 = img.data.shape[1],
                           !.dim1 = img.data.shape[2],
                           !.header_keys = AppendMissing(img.header_keys, keys, 1)])

(***************************************************************************)
(* The tokenizer as a state machine                                        *)
(***************************************************************************)
MaxText == 4

SplitAlphabet == {"'", "\"", ";", "_", "a", " ", "\n"}

RECURSIVE SeqsUpTo(_, _)
SeqsUpTo(S, n) ==
    IF n = 0 THEN {<<>>}
    ELSE LET shorter == SeqsUpTo(S, n - 1)
         IN  shorter \cup {Append(s, c) : s \in {x \in shorter : Len(x) = n - 1}, c \in S}

curSplit == SplitState(sText, lFields, idx, pcSplit)

SetSplit(st) ==
    /\ sText' = st.sText
    /\ lFields' = st.lFields
    /\ idx' = st.idx
    /\ pcSplit' = st.pc
    /\ UNCHANGED <<loopVars, cifVars, docVars, cbfVars>>

\* _parseCIF hands _splitCIF the stripped text (line 374).
NoLoopResult == [status |-> "none", loop |-> <<>>, length |-> 0, keys |-> <<>>]

LoopIdle == iStart = 0 /\ loopResult = NoLoopResult

CIFIdle == ordered = <<>> /\ dict = EmptyDict /\ calls = <<>> /\ raised = FALSE

NotParsed == [status |-> "none", cif |-> EmptyCIF, fields |-> <<>>]

DocIdle == rendered = NotRendered /\ parsed = NotParsed

NoCalls == [reads |-> 0, writes |-> 0]

\* No image in use: a cbfimage() just constructed, and no file.
CBFIdle ==
    /\ image = Image(EmptyDict, <<>>, None)
    /\ outcome = NoOutcome
    /\ disk = EmptyDict
    /\ nCalls = NoCalls

SplitInit ==
    /\ sText \in {Strip(t) : t \in SeqsUpTo(SplitAlphabet, MaxText)}
    /\ lFields = <<>>
    /\ idx = 0
    /\ pcSplit = "top"
    /\ LoopIdle
    /\ CIFIdle
    /\ DocIdle
    /\ CBFIdle

Dispatch == pcSplit = "top" /\ SetSplit(TopStep(curSplit))

ScanSingleQuote == pcSplit = "squote" /\ SetSplit(QuoteIter(curSplit, "'"))

ScanDoubleQuote == pcSplit = "dquote" /\ SetSplit(QuoteIter(curSplit, "\""))

ScanSemicolon == pcSplit = "semi" /\ SetSplit(SemiIter(curSplit))

SplitNext == Dispatch \/ ScanSingleQuote \/ ScanDoubleQuote \/ ScanSemicolon

SpecSplit == SplitInit /\ [][SplitNext]_vars

\* C4: _splitCIF terminates on every text: no pass of one of its while
\* loops leaves the tokenizer where it was (the same text, fields and scan
\* index), so an unterminated ' " or ; field still comes to an end.
SplitTerminates ==
    pcSplit \notin {"done", "error"} => SplitStep(curSplit) # curSplit

(***************************************************************************)
(* _analyseOneLoop on the field lists _parseCIF hands it (line 381): the   *)
(* fields are split, and iStart is the place of a loop_ field.             *)
(***************************************************************************)
MaxBody == 6

FieldAlphabet ==
    {LOOP_, <<"_","a">>, <<"_","b">>, <<"1">>, <<"2">>, <<>>}

\* What stands before the loop_ field; _analyseOneLoop reads no field
\* before iStart + 1.
LoopPrefixes == {<<>>, << <<"_","b">>, <<"2">> >>}

LoopInit ==
    /\ \E pre \in LoopPrefixes, body \in SeqsUpTo(FieldAlphabet, MaxBody) :
          /\ lFields = pre \o <<LOOP_>> \o body
          /\ iStart = Len(pre)
    /\ loopResult = NoLoopResult
    /\ sText = <<>>
    /\ idx = 0
    /\ pcSplit = "done"
    /\ CIFIdle
    /\ DocIdle
    /\ CBFIdle

AnalyseLoop ==
    /\ loopResult.status = "none"
    /\ loopResult' = AnalyseOneLoop(lFields, iStart)
    /\ UNCHANGED <<splitVars, iStart, cifVars, docVars, cbfVars>>

LoopNext == AnalyseLoop

SpecLoop == LoopInit /\ [][LoopNext]_vars

\* A column key, and a data value, as _analyseOneLoop tells them apart.
IsKeyField(f) == f # <<>> /\ f[1] = "_"

IsDataField(f) ==
    f # <<>> /\ f[1] # "_" /\ f \notin {LOOP_, STOP_, GLOBAL_, DATA_, SAVE_}

\* The loop at iStart has exactly k column keys followed by exactly m data
\* values: then the fields end, or a field follows that is no data value
\* (and, with no data value, no column key either).
LoopShape(k, m) ==
    /\ iStart + 1 + k + m <= Len(lFields)
    /\ \A i \in 1..k : IsKeyField(lFields[iStart + 1 + i])
    /\ \A j \in 1..m : IsDataField(lFields[iStart + 1 + k + j])
    /\ \/ iStart + 1 + k + m = Len(lFields)
       \/ /\ ~IsDataField(lFields[iStart + 2 + k + m])
          /\ m = 0 => ~IsKeyField(lFields[iStart + 2 + k + m])

\* Record r of the result gives each of the k column keys the value that
\* stands at the key's place in row r of the data (of a key listed twice,
\* the later place: the assignments are made in key order).
RowsInKeyOrder(k, n) ==
    \A r \in 1..n :
        /\ DOMAIN loopResult.loop[r] = {lFields[iStart + 1 + i] : i \in 1..k}
        /\ \A i \in 1..k :
              (\A i2 \in (i + 1)..k :
                    lFields[iStart + 1 + i2] # lFields[iStart + 1 + i])
              => loopResult.loop[r][lFields[iStart + 1 + i]]
                     = lFields[iStart + 1 + k + (r - 1) * k + i]

MaxCalls == 4

CIFKeys == {<<"_","a">>, <<"_","b">>, <<"_","c">>}

CIFValues == {<<"1">>, <<"2">>}

SplitIdle == sText = <<>> /\ lFields = <<>> /\ idx = 0 /\ pcSplit = "done"

\* CIF() (lines 255-263)
CIFInit ==
    /\ ordered = EmptyCIF.ordered
    /\ dict = EmptyCIF.dict
    /\ calls = <<>>
    /\ raised = FALSE
    /\ SplitIdle
    /\ LoopIdle
    /\ DocIdle
    /\ CBFIdle

curCIF == CIFObject(ordered, dict)

\* cif[k] = v
CallSetItem ==
    \E k \in CIFKeys, v \in CIFValues :
        /\ Len(calls) < MaxCalls
        /\ ordered' = SetItem(curCIF, k, v).ordered
        /\ dict' = SetItem(curCIF, k, v).dict
        /\ raised' = FALSE
        /\ calls' = Append(calls, [op |-> "setitem", key |-> k, value |-> v])
        /\ UNCHANGED <<splitVars, loopVars, docVars, cbfVars>>

\* cif.pop(k)
CallPop ==
    \E k \in CIFKeys :
        /\ Len(calls) < MaxCalls
        /\ ordered' = Pop(curCIF, k).cif.ordered
        /\ dict' = Pop(curCIF, k).cif.dict
        /\ raised' = Pop(curCIF, k).raised
        /\ calls' = Append(calls, [op |-> "pop", key |-> k, value |-> <<>>])
        /\ UNCHANGED <<splitVars, loopVars, docVars, cbfVars>>

\* cif.popitem(k)
CallPopItem ==
    \E k \in CIFKeys :
        /\ Len(calls) < MaxCalls
        /\ ordered' = PopItem(curCIF, k).cif.ordered
        /\ dict' = PopItem(curCIF, k).cif.dict
        /\ raised' = PopItem(curCIF, k).raised
        /\ calls' = Append(calls, [op |-> "popitem", key |-> k, value |-> <<>>])
        /\ UNCHANGED <<splitVars, loopVars, docVars, cbfVars>>

CIFNext == CallSetItem \/ CallPop \/ CallPopItem

SpecCIF == CIFInit /\ [][CIFNext]_vars

\* The keys of the calls from call i on, each at its first occurrence only.
RECURSIVE FirstInsertions(_, _)
FirstInsertions(cs, i) ==
    IF i > Len(cs) THEN <<>>
    ELSE IF \E j \in 1..(i - 1) : cs[j].key = cs[i].key
    THEN FirstInsertions(cs, i + 1)
    ELSE <<cs[i].key>> \o FirstInsertions(cs, i + 1)

\* The value of the last call that set key k.
LastValue(cs, k) ==
    cs[SetMax({i \in 1..Len(cs) : cs[i].key = k})].value

OnlySetItem == \A i \in 1..Len(calls) : calls[i].op = "setitem"

\* C8: after any sequence of __setitem__ calls, _ordered lists every
\* inserted key exactly once, in the order of the keys' first insertions,
\* and each key holds the value assigned to it last: assigning to a key
\* already present changes its value, not its place nor the list's length.
KeyOrderInvariant ==
    OnlySetItem =>
        /\ ordered = FirstInsertions(calls, 1)
        /\ \A i, j \in 1..Len(ordered) : ordered[i] = ordered[j] => i = j
        /\ DOMAIN dict = Range(ordered)
        /\ \A k \in DOMAIN dict : dict[k] = LastValue(calls, k)

\* A key present has been assigned again, with another value, after a
\* second key was inserted behind it.
KeyOrderWitness ==
    /\ OnlySetItem
    /\ Len(calls) >= 3
    /\ calls[Len(calls)].key = calls[1].key
    /\ calls[Len(calls)].value # calls[1].value
    /\ Len(ordered) >= 2
    /\ ordered[1] = calls[1].key

\* C15: after every call of __setitem__, pop and popitem, one that ends
\* in an error included, _ordered and the dict hold the same set of keys,
\* each key once in _ordered; and a call that fails leaves both as they
\* were.
OrderedMapConsistency ==
    [][/\ Range(ordered') = DOMAIN dict'
       /\ \A i, j \in 1..Len(ordered') : ordered'[i] = ordered'[j] => i = j
       /\ raised' => (ordered' = ordered /\ dict' = dict)]_vars

(***************************************************************************)
(* A document built by __setitem__, rendered by tostring, and the text     *)
(* parsed by _parseCIF into a new CIF object                               *)
(***************************************************************************)
MaxEntries == 2

\* n times the character c
Rep(c, n) == [i \in 1..n |-> c]

DocKeys == {<<"_","a">>, <<"_","b">>}

\* A word, two words, two lines, and a word and two words that make the
\* line of a two-character key longer than 80 columns.
DocValues ==
    {<<"1">>, <<"x"," ","y">>, <<"l","1","\n","l","2">>,
     Rep("x", KeyLineLimit - 9),
     Rep("x", KeyLineLimit - 12) \o <<" ","y">>}

\* A word of one character, two words, and words of 38, 39, 76 and 77
\* characters: each fits a row line of 78 columns behind one blank.
LoopValues ==
    {<<"1">>, <<"x"," ","y">>,
     Rep("x", RowLineLimit \div 2 - 1), Rep("x", RowLineLimit \div 2),
     Rep("x", RowLineLimit - 2), Rep("x", RowLineLimit - 1)}

LoopKeyLists == {<< <<"_","p">> >>, << <<"_","p">>, <<"_","q">> >>}

\* The loops of one row: [keys, [record]], as _analyseOneLoop makes them.
DocLoops ==
    {<<keys, <<row>>>> :
        keys \in LoopKeyLists,
        row \in UNION {[Range(keys) -> LoopValues] : keys \in LoopKeyLists}}

DocInit ==
    /\ ordered = EmptyCIF.ordered
    /\ dict = EmptyCIF.dict
    /\ calls = <<>>
    /\ raised = FALSE
    /\ rendered = NotRendered
    /\ parsed = NotParsed
    /\ SplitIdle
    /\ LoopIdle
    /\ CBFIdle

\* cif[k] = v
DocSetItem ==
    \E k \in DocKeys, v \in DocValues :
        /\ rendered.status = "none"
        /\ k \in DOMAIN dict \/ Cardinality(DOMAIN dict) < MaxEntries
        /\ ordered' = SetItem(curCIF, k, v).ordered
        /\ dict' = SetItem(curCIF, k, v).dict
        /\ UNCHANGED <<splitVars, loopVars, calls, raised, docVars, cbfVars>>

\* cif["loop_"] = [loop]
DocSetLoop ==
    \E loop \in DocLoops :
        /\ rendered.status = "none"
        /\ DOMAIN loop[2][1] = Range(loop[1])
        /\ LOOP_ \notin DOMAIN dict
        /\ Cardinality(DOMAIN dict) < MaxEntries
        /\ ordered' = SetItem(curCIF, LOOP_, <<loop>>).ordered
        /\ dict' = SetItem(curCIF, LOOP_, <<loop>>).dict
        /\ UNCHANGED <<splitVars, loopVars, calls, raised, docVars, cbfVars>>

\* cif.tostring(None, linesep)
DocRender ==
    \E linesep \in {<<"\n">>, <<"\r","\n">>} :
        /\ rendered.status = "none"
        /\ rendered' = Tostring(curCIF, FALSE, <<>>, linesep)
        /\ ordered' = Tostring(curCIF, FALSE, <<>>, linesep).ordered
        /\ UNCHANGED <<splitVars, loopVars, dict, calls, raised, parsed, cbfVars>>

\* CIF()._parseCIF(text)
DocParse ==
    /\ rendered.status = "ok"
    /\ parsed.status = "none"
    /\ parsed' = ParseCIF(EmptyCIF, rendered.text)
    /\ UNCHANGED <<splitVars, loopVars, cifVars, rendered, cbfVars>>

DocNext == DocSetItem \/ DocSetLoop \/ DocRender \/ DocParse

SpecDoc == DocInit /\ [][DocNext]_vars

\* C2: for every document without a loop, the parse of the text tostring
\* made of it completes and holds the keys of the document and no other,
\* each with the value of the document, the values compared trimmed.
DocRoundTrip ==
    (parsed.status # "none" /\ LOOP_ \notin DOMAIN dict)
    => /\ parsed.status = "ok"
       /\ DOMAIN parsed.cif.dict = DOMAIN dict
       /\ \A k \in DOMAIN dict : Strip(parsed.cif.dict[k]) = Strip(dict[k])

\* C9: no line that tostring emits for a row of a loop, the values of the
\* loop holding no line break, is longer than 78 columns.
LoopRowWidth ==
    (rendered.status = "ok" /\ LOOP_ \in DOMAIN dict)
    => \A i \in 1..Len(rendered.rowLines) :
           Len(rendered.rowLines[i]) <= RowLineLimit

(***************************************************************************)
(* A cbfimage object in use: read, changes of its header by the caller,    *)
(* and write, on files of the layout that write produces                   *)
(***************************************************************************)
MaxReads == 1

MaxWrites == 2

\* The permutations of the set S, as sequences.
Perms(S) ==
    {p \in [1..Cardinality(S) -> S] :
        \A i, j \in 1..Cardinality(S) : p[i] = p[j] => i = j}

DATA_X == <<"d","a","t","a","_","x">>

KEY_A_LINE == <<"_","a"," "," ","1">>

\* The text of a file: a data_ line, the lines entries, and the field
\* _array_data.data holding the marker, the lines blockLines, an empty
\* line, body, an empty line and the closing marker, the lines ending in
\* CR LF.
CBFText(entries, blockLines, body) ==
    Join(<<DATA_X>> \o entries \o <<ARRAY_DATA, <<";">>, BINARY_MARKER>>
             \o blockLines
             \o <<<<>>, body, <<>>, BINARY_MARKER \o <<"-", "-">>, <<";">>, <<>>>>,
         CRLF)

\* The samples of the files read, one row of two.
FileSamples == <<I64(1), I64(2)>>

\* What a file gives for a dimension: a number, no line, or no number.
FastestChoices == << <<"2">>, <<>>, <<"x">> >>

SecondChoices == << <<"1">>, <<>>, <<"1", ".", "5">> >>

ConversionsChoices ==
    <<CONVERSIONS_LINE,
      <<" "," "," "," "," ","c","o","n","v","e","r","s","i","o","n","s","=",
        "\"","x","-","C","B","F","_","N","O","N","E","\"">>,
      <<>>>>

\* A line of the binary section, or none for the value <<>>.
OptionalLine(head, value) == IF value = <<>> THEN <<>> ELSE <<head \o value>>

\* A file with the key _a and a binary section of two samples, whose lines
\* for the compression and for the two dimensions are as chosen, with or
\* without STARTER before the payload.
CraftedText(conv, fastest, second, sentinel) ==
    LET blob == ToText(Encode(FileSamples))
    IN  CBFText(<<KEY_A_LINE>>,
                (IF conv = <<>> THEN <<>> ELSE <<conv>>)
                    \o <<SIZE_HEAD \o IntFormat(Len(blob)),
                         TYPE_HEAD \o INT32 \o <<"\"">> >>
                    \o OptionalLine(FASTEST_HEAD, fastest)
                    \o OptionalLine(SECOND_HEAD, second),
                (IF sentinel THEN STARTER ELSE <<>>) \o blob)

\* Files that _readheader does not get through: no field
\* _array_data.data, a loop, a line of the binary section without ":" and
\* "=", and a quote that is not closed.
BrokenTexts ==
    <<Join(<<DATA_X, KEY_A_LINE, <<>>>>, CRLF),
      CBFText(<<LOOP_, <<"_", "p">>, <<"1">>>>, <<CONVERSIONS_LINE>>, STARTER),
      CBFText(<<>>, <<<<"0","1","2","3","4","5","6","7","8","9">>>>, STARTER),
      Join(<<DATA_X, <<"_","q"," ","'","b">>>>, CRLF)>>

\* A file: its text, and the array it was written from (None for a file
\* that write has not written).
File(text, origin) == [text |-> text, origin |-> origin]

\* The input files, <<name, file>> each: the name tells the choices made.
InputFiles ==
    {<<<<"i", "n">> \o IntFormat(c) \o IntFormat(f) \o IntFormat(d)
            \o (IF sentinel THEN <<"s">> ELSE <<>>) \o <<".", "c", "b", "f">>,
       File(CraftedText(ConversionsChoices[c], FastestChoices[f],
                        SecondChoices[d], sentinel), None)>> :
        c \in 1..3, f \in 1..3, d \in 1..3, sentinel \in BOOLEAN}
    \cup {<<<<"b", "a", "d">> \o IntFormat(i) \o <<".", "c", "b", "f">>,
            File(BrokenTexts[i], None)>> : i \in 1..Len(BrokenTexts)}

\* The files as name -> file.
InputDisk ==
    [name \in {nf[1] : nf \in InputFiles} |->
        (CHOOSE nf \in InputFiles : nf[1] = name)[2]]

\* The keys and the value the caller puts into the header: a CIF key and
\* a key that is none.
HeaderNames == {<<"_", "b">>, <<"D", "e", "t">>}

HeaderValues == {<<"1">>}

WriteNames == {<<"o","u","t",".","c","b","f">>}

\* cbfimage(data): an image with or without an array, the CIF object
\* empty, and the input files.
CBFInit ==
    /\ image \in {Image(EmptyDict, <<>>, data) :
                     data \in {None, Array(4, <<1, 2>>, FileSamples)}}
    /\ outcome = NoOutcome
    /\ disk = InputDisk
    /\ nCalls = NoCalls
    /\ CIFIdle
    /\ SplitIdle
    /\ LoopIdle
    /\ DocIdle

\* image.read(fname).  A call that does not return leaves no call after it.
CBFRead ==
    \E fname \in DOMAIN disk :
        /\ outcome.status # "hang"
        /\ nCalls.reads < MaxReads
        /\ \E p \in {ParseCIF(curCIF, disk[fname].text)} :
               \E keys \in Perms(DOMAIN p.cif.dict), hasFname \in BOOLEAN :
                   \E r \in {Read(image, p, fname, keys, hasFname)} :
                       /\ image' = r.img
                       /\ ordered' = r.cif.ordered
                       /\ dict' = r.cif.dict
                       /\ outcome' = r.outcome
        /\ nCalls' = [nCalls EXCEPT !.reads = @ + 1]
        /\ UNCHANGED <<splitVars, loopVars, calls, raised, docVars, disk>>

\* image.header[key] = value, by the caller.
CBFSetHeader ==
    \E key \in HeaderNames, value \in HeaderValues :
        /\ outcome.status # "hang"
        /\ key \notin DOMAIN image.header
        /\ image' = [image EXCEPT !.header = DictSet(@, key, value)]
        /\ outcome' = Outcome("setheader", <<>>, "ok", "none", <<>>, NoBinary)
        /\ UNCHANGED <<splitVars, loopVars, cifVars, docVars, disk, nCalls>>

\* image.write(fname).  The dict self.header yields the keys that
\* header_keys lacks in the order keys; the keys that header_keys holds
\* are passed over at line 220 wherever they come.
CBFWrite ==
    \E fname \in WriteNames :
        /\ outcome.status # "hang"
        /\ nCalls.writes < MaxWrites
        /\ \E keys \in Perms((DOMAIN image.header) \ Range(image.header_keys)) :
               \E w \in {Write(image, curCIF, fname, keys)} :
                   /\ image' = w.img
                   /\ ordered' = w.cif.ordered
                   /\ dict' = w.cif.dict
                   /\ outcome' = w.outcome
                   /\ rendered' = w.rendered
                   /\ disk' = IF w.file.opened
                              THEN DictSet(disk, fname, File(w.file.text, image.data))
                              ELSE disk
        /\ nCalls' = [nCalls EXCEPT !.writes = @ + 1]
        /\ UNCHANGED <<splitVars, loopVars, calls, raised, parsed>>

CBFNext == CBFRead \/ CBFSetHeader \/ CBFWrite

SpecCBF == CBFInit /\ [][CBFNext]_vars

\* The step is a call of read.
ReadStep == nCalls'.reads = nCalls.reads + 1

\* _readheader has returned to read: line 126 is reached.
HeaderRead(o) == "dims" \in Range(o.steps)

\* The header lacks a dimension or holds one that int() does not take.
DimsUnusable(header) ==
    \E key \in {FASTEST_DIMENSION, SECOND_DIMENSION} :
        key \notin DOMAIN header \/ ~IntParse(header[key]).ok

UnsupportedFatal ==
    [][(/\ ReadStep
        /\ CONVERSIONS \in DOMAIN image'.header
        /\ image'.header[CONVERSIONS] # BYTE_OFFSET) =>
          /\ outcome'.status = "raised"
          /\ ~outcome'.called
          /\ image'.data = image.data]_vars

\* A read of a file of good dimensions has raised for the compression
\* x-CBF_NONE, on an image that held an array.
UnsupportedWitness ==
    /\ outcome.op = "read"
    /\ outcome.error = "Unsupported"
    /\ CONVERSIONS \in DOMAIN image.header
    /\ image.dim1 = 2 /\ image.dim2 = 1
    /\ ~image.data.none

\* C7: when STARTER does not occur in the field _array_data.data, read
\* raises an error and the decoder is not given a payload.
MissingSentinelFatal ==
    (/\ outcome.op = "read"
     /\ outcome.status # "hang"
     /\ ARRAY_DATA \in DOMAIN dict
     /\ Find(dict[ARRAY_DATA], STARTER) = -1) =>
        /\ outcome.status = "raised"
        /\ ~outcome.called

\* C10: in the document that write has produced, _array_data.data is the
\* last key rendered.
DataRenderedLast ==
    (outcome.op = "write" /\ outcome.status = "ok") =>
        rendered.keys[Len(rendered.keys)] = ARRAY_DATA

\* C14: after the read of a file whose document holds a loop, the loop
\* tables are kept apart from the flat entries of the document, so that
\* every entry _readheader copies into the header is a string and
\* _readheader returns to read.
LoopsKeptApart ==
    (/\ outcome.op = "read"
     /\ outcome.status # "hang"
     /\ Find(disk[outcome.fname].text, LOOP_) >= 0) =>
        /\ LOOP_ \notin DOMAIN dict
        /\ LOOP_ \notin Range(image.header_keys)
        /\ HeaderRead(outcome)

(***************************************************************************)
(* The codec by itself: the encoder of line 185 and the decoder of line    *)
(* 167, on one array                                                       *)
(***************************************************************************)
MaxSamples == 2

INT32_MIN == I64(-2147483647 - 1)

INT32_MAX == I64(2147483647)

INT64_MIN == <<0, 0, 0, 0, 0, 0, 0, 128>>

INT64_MAX == <<255, 255, 255, 255, 255, 255, 255, 127>>

\* The values at and next to the bounds of the widths.
Samples ==
    {I64(n) : n \in {0, -129, -128, -127, 126, 127, 128, -32769, -32768, -32767,
                     32766, 32767, 32768}}
    \cup {Sub64(INT32_MIN, I64(1)), INT32_MIN, Add64(INT32_MIN, I64(1)),
          Sub64(INT32_MAX, I64(1)), INT32_MAX, Add64(INT32_MAX, I64(1)),
          INT64_MIN, Add64(INT64_MIN, I64(1)),
          Sub64(INT64_MAX, I64(1)), INT64_MAX}

\* The name the blob goes by (line 185).
BINARY_BLOB == <<"b","i","n","a","r","y","_","b","l","o","b">>

\* An image whose array is one row of samples; nothing encoded yet.
CodecInit ==
    /\ image \in {Image(EmptyDict, <<>>, Array(8, <<1, Len(x)>>, x)) :
                     x \in SeqsUpTo(Samples, MaxSamples)}
    /\ outcome = NoOutcome
    /\ disk = EmptyDict
    /\ nCalls = NoCalls
    /\ CIFIdle
    /\ SplitIdle
    /\ LoopIdle
    /\ DocIdle

\* binary_blob = compByteOffet(self.data): the blob is kept with the array
\* it was made from.
CodecEncode ==
    /\ nCalls.writes = 0
    /\ disk' = DictSet(disk, BINARY_BLOB,
                       File(ToText(Encode(image.data.flat)), image.data))
    /\ outcome' = Outcome("encode", BINARY_BLOB, "ok", "none", <<>>, NoBinary)
    /\ nCalls' = [nCalls EXCEPT !.writes = @ + 1]
    /\ UNCHANGED <<splitVars, loopVars, cifVars, docVars, image>>

\* The decoder on the blob, with the number of samples of the array for
\* size: the array of the image is what the decoder gives.
CodecDecode ==
    /\ nCalls.reads = 0
    /\ BINARY_BLOB \in DOMAIN disk
    /\ \E d \in {Decode(ToBytes(disk[BINARY_BLOB].text),
                        Len(disk[BINARY_BLOB].origin.flat))} :
           /\ image' = [image EXCEPT !.data = Array(8, <<1, Len(d.values)>>,
                                                    d.values)]
           /\ outcome' = Outcome("decode", BINARY_BLOB,
                                 IF d.status = "ok" THEN "ok" ELSE "raised",
                                 IF d.status = "ok" THEN "none" ELSE "SizeMismatch",
                                 <<>>, NoBinary)
    /\ nCalls' = [nCalls EXCEPT !.reads = @ + 1]
    /\ UNCHANGED <<splitVars, loopVars, cifVars, docVars, disk>>

CodecNext == CodecEncode \/ CodecDecode

SpecCodec == CodecInit /\ [][CodecNext]_vars

\* C1: Decode(Encode(x), len(x)) is x, for every sequence x of 64-bit
\* samples: the decoder ends without error and gives the samples encoded.
CodecRoundTrip ==
    outcome.op = "decode" =>
        /\ outcome.status = "ok"
        /\ image.data.flat = disk[BINARY_BLOB].origin.flat

\* A sequence has been decoded whose deltas are the escape sentinel of one
\* byte and one that only 8 bytes hold: -128, then INT64_MAX.
CodecWitness ==
    /\ outcome.op = "decode"
    /\ disk[BINARY_BLOB].origin.flat = <<I64(-128), INT64_MAX>>
    /\ Len(disk[BINARY_BLOB].text) = 3 + 15


(***************************************************************************)
(* _parseCIF on texts with loops, well made and not: the words of a text   *)
(* are loop keywords, column keys, values and empty quoted fields          *)
(***************************************************************************)
MaxWords == 6

ParseWords ==
    {LOOP_, <<"L","O","O","P","_">>, <<"_","a">>, <<"_","b">>, <<"1">>,
     <<"'","'">>}

ParseInit ==
    /\ sText \in {Join(ws, <<" ">>) : ws \in SeqsUpTo(ParseWords, MaxWords)}
    /\ lFields = <<>>
    /\ idx = 0
    /\ pcSplit = "top"
    /\ parsed = NotParsed
    /\ rendered = NotRendered
    /\ LoopIdle
    /\ CIFIdle
    /\ CBFIdle

\* CIF()._parseCIF(sText); lFields keeps the fields as line 374 split them,
\* parsed.fields the list the loops were cut out of.
ParseText ==
    /\ parsed.status = "none"
    /\ \E sp \in {SplitCIF(Strip(sText))} :
          /\ lFields' = sp.lFields
          /\ pcSplit' = sp.pc
          /\ parsed' = IF sp.pc = "done"
                       THEN AssembleFields(EmptyCIF, sp.lFields)
                       ELSE [status |-> sp.pc, cif |-> EmptyCIF, fields |-> <<>>]
    /\ UNCHANGED <<sText, idx, loopVars, cifVars, rendered, cbfVars>>

ParseNext == ParseText

SpecParse == ParseInit /\ [][ParseNext]_vars

\* C11: _parseCIF and _analyseOneLoop complete without raising on every
\* field list the tokenizer produces, a malformed one included (a loop_
\* that is the last field, a loop_ with column keys only, a loop_ with data
\* and no column key, empty quoted fields).
ParseNeverRaises ==
    parsed.status # "none" => parsed.status = "ok"


\* The fields of lFields that stand outside the span of every loop, in
\* their order; the span of a loop is its loop_ keyword, its column keys
\* and its data values, as _analyseOneLoop counts them.
FieldsOutsideLoops ==
    LET loopidx == LoopIdx(lFields)
        span(i) == i..(i + AnalyseOneLoop(lFields, i).length - 1)
        inside == UNION {span(loopidx[m]) : m \in 1..Len(loopidx)}
        outside == (0..(Len(lFields) - 1)) \ inside
        place(k) == CHOOSE p \in outside : Cardinality({q \in outside : q <= p}) = k
    IN  [k \in 1..Cardinality(outside) |-> lFields[place(k) + 1]]

\* C12: once _parseCIF has cut the loops out, the fields left are the
\* fields as split without those in the span of some loop, in their order:
\* no field outside every span is removed, whatever the number of loops
\* and the letter case of their loop_ keywords.
LoopRemovalFrame ==
    parsed.status = "ok" => parsed.fields = FieldsOutsideLoops


(***************************************************************************)
(* The tokenizer on a text field that holds a binary section: the field    *)
(* opens with ";", blanks, the binary section marker, a payload, and the   *)
(* marker again                                                            *)
(***************************************************************************)
MaxPayload == 2

PayloadAlphabet == {"\n", ";", "x"}

\* What stands between the opening ";" and the marker: nothing, a line
\* break, and blanks that put the marker at the offsets 31 and 32, the one
\* before and the one at which line 453 starts to look for the marker.
BinaryPads == {<<>>, <<"\n">>, Rep(" ", 30), Rep(" ", 31)}

BinaryInit ==
    /\ \E pad \in BinaryPads,
          payload \in SeqsUpTo(PayloadAlphabet, MaxPayload),
          after \in SeqsUpTo(PayloadAlphabet, MaxPayload + 1) :
          sText = Strip(<<";">> \o pad \o BINARY_MARKER \o payload
                            \o BINARY_MARKER \o after)
    /\ lFields = <<>>
    /\ idx = 0
    /\ pcSplit = "top"
    /\ LoopIdle
    /\ CIFIdle
    /\ DocIdle
    /\ CBFIdle

BinaryNext == Dispatch \/ ScanSemicolon

SpecBinary == BinaryInit /\ [][BinaryNext]_vars

\* The 0-based place in t where the marker stands for the second time, -1
\* when it stands once only.
SecondMarker(t) ==
    LET first == Find(t, BINARY_MARKER)
        again == Find(SliceFrom(t, first + 1), BINARY_MARKER)
    IN  IF first = -1 \/ again = -1 THEN -1 ELSE first + 1 + again

\* The 0-based places of the ";" of t that follow an end-of-line character
\* and lie after the end of the second marker.
ClosingPlaces(t) ==
    {j \in (SecondMarker(t) + Len(BINARY_MARKER))..(Len(t) - 1) :
        At(t, j) = ";" /\ At(t, j - 1) \in EOL}

\* C13: a field opened by ";" whose trimmed content begins with the binary
\* section marker and holds the marker a second time ends at the first ";"
\* behind an end-of-line character that lies after the end of the second
\* marker: a ";" behind an end-of-line character before that place is
\* content of the field, and the field emitted is the trimmed text between
\* the opening ";" and the end-of-line character of the closing one.
BinaryFieldEnd ==
    [][(/\ pcSplit = "semi"
        /\ pcSplit' # "semi"
        /\ StartsWith(Strip(SliceFrom(sText, 1)), BINARY_MARKER)
        /\ SecondMarker(sText) # -1
        /\ ClosingPlaces(sText) # {})
       => LET j == SetMin(ClosingPlaces(sText))
          IN  /\ lFields' = Append(lFields, Strip(Slice(sText, 1, j - 1)))
              /\ sText' = Strip(SliceFrom(sText, j + 1))]_vars


(***************************************************************************)
(* One cbfimage object reading one file after another                      *)
(***************************************************************************)
MaxRereads == 3

KEY_B_LINE == <<"_","b"," "," ","2">>

\* What the files hold before the field _array_data.data: the key _a, the
\* key _b, both, neither, a loop, and the key _a with another value.
RereadEntries ==
    << <<KEY_A_LINE>>, <<KEY_B_LINE>>, <<KEY_A_LINE, KEY_B_LINE>>, <<>>,
       <<LOOP_, <<"_","p">>, <<"1">>>>, <<<<"_","a"," "," ","3">>>> >>

\* A file of those entries and a binary section of two samples, one row of
\* two, in the layout that write produces.
RereadText(entries) ==
    LET blob == ToText(Encode(FileSamples))
    IN  CBFText(entries,
                <<CONVERSIONS_LINE,
                  SIZE_HEAD \o IntFormat(Len(blob)),
                  TYPE_HEAD \o INT32 \o <<"\"">>,
                  FASTEST_HEAD \o <<"2">>,
                  SECOND_HEAD \o <<"1">> >>,
                STARTER \o blob)

RereadDisk ==
    [name \in {<<"r">> \o IntFormat(i) \o <<".", "c", "b", "f">> :
                  i \in 1..Len(RereadEntries)} |->
        File(RereadText(RereadEntries[IntParse(SubSeq(name, 2, Len(name) - 4)).value]),
             None)]

\* cbfimage(): no array, the CIF object empty.
RereadInit ==
    /\ image = Image(EmptyDict, <<>>, None)
    /\ outcome = NoOutcome
    /\ disk = RereadDisk
    /\ nCalls = NoCalls
    /\ CIFIdle
    /\ SplitIdle
    /\ LoopIdle
    /\ DocIdle

\* image.read(fname), on the image as the call before has left it.
ReadAgain ==
    \E fname \in DOMAIN disk :
        /\ outcome.status # "hang"
        /\ nCalls.reads < MaxRereads
        /\ \E p \in {ParseCIF(curCIF, disk[fname].text)} :
               \E keys \in Perms(DOMAIN p.cif.dict), hasFname \in BOOLEAN :
                   \E r \in {Read(image, p, fname, keys, hasFname)} :
                       /\ image' = r.img
                       /\ ordered' = r.cif.ordered
                       /\ dict' = r.cif.dict
                       /\ outcome' = r.outcome
        /\ nCalls' = [nCalls EXCEPT !.reads = @ + 1]
        /\ UNCHANGED <<splitVars, loopVars, calls, raised, docVars, disk>>

RereadNext == ReadAgain

SpecReread == RereadInit /\ [][RereadNext]_vars

\* C16: after a read, whatever the object has read before, the CIF
\* document holds no key that the file read last does not hold (its loops,
\* kept under the key loop_, included), and the header holds only keys of
\* that document and of its binary section: those that a new cbfimage gets
\* from the file.
NoCarryOver ==
    (outcome.op = "read" /\ outcome.status # "hang") =>
        LET fresh(p) == ReadHeader(p, EmptyDict, <<>>, Sorted(DOMAIN p.cif.dict))
            only(p) ==
                /\ DOMAIN dict \subseteq DOMAIN p.cif.dict
                /\ DOMAIN image.header
                       \subseteq (DOMAIN p.cif.dict) \cup DOMAIN fresh(p).header
        IN  only(ParseCIF(EmptyCIF, disk[outcome.fname].text))


(***************************************************************************)
(* The CIF object under insertions, removals and tostring                  *)
(***************************************************************************)
\* del cif[k]: dict.__delitem__, which the class CIF(dict) of line 245
\* inherits and does not override: [cif, raised].  _ordered is left as it
\* is; KeyError for a key the dict does not hold.
DelItem(c, k) ==
    IF k \in DOMAIN c.dict
    THEN [cif |-> CIFObject(c.ordered, DictDel(c.dict, k)), raised |-> FALSE]
    ELSE [cif |-> c, raised |-> TRUE]

\* del cif[k]
CallDelItem ==
    \E k \in CIFKeys :
        /\ Len(calls) < MaxCalls
        /\ ordered' = DelItem(curCIF, k).cif.ordered
        /\ dict' = DelItem(curCIF, k).cif.dict
        /\ raised' = DelItem(curCIF, k).raised
        /\ calls' = Append(calls, [op |-> "delitem", key |-> k, value |-> <<>>])
        /\ UNCHANGED <<splitVars, loopVars, docVars, cbfVars>>

\* cif.tostring(None, "\n")
CallTostring ==
    /\ Len(calls) < MaxCalls
    /\ \E r \in {Tostring(curCIF, FALSE, <<>>, LF)} :
          /\ rendered' = r
          /\ ordered' = r.ordered
    /\ raised' = FALSE
    /\ calls' = Append(calls, [op |-> "tostring", key |-> <<>>, value |-> <<>>])
    /\ UNCHANGED <<splitVars, loopVars, dict, parsed, cbfVars>>

RenderNext ==
    CallSetItem \/ CallPop \/ CallPopItem \/ CallDelItem \/ CallTostring

SpecRender == CIFInit /\ [][RenderNext]_vars

\* C17: whatever insertions and removals of keys came before, a removal
\* that left a key of _ordered without an entry included, a call of
\* tostring renders every key of the dict other than loop_, each once, and
\* a call that follows a call of tostring directly returns the same text.
CompleteRendering ==
    [][(Len(calls') = Len(calls) + 1 /\ calls'[Len(calls')].op = "tostring") =>
          /\ rendered'.status = "ok"
          /\ Range(rendered'.keys) = (DOMAIN dict) \ {LOOP_}
          /\ \A i, j \in 1..Len(rendered'.keys) :
                rendered'.keys[i] = rendered'.keys[j] => i = j
          /\ (calls # <<>> /\ calls[Len(calls)].op = "tostring")
             => rendered'.text = rendered.text]_vars

====
